---- MODULE Spec2Model ----
(***************************************************************************)
(* A model of PyOM.run / PyOM.setup / PyOM.allocate / PyOM.flush of        *)
(* src/climate/pyom/pyom.py: the setup sequence, the restart reads, the    *)
(* computation of the end iteration, the step loop with its flag-gated     *)
(* stages, the time-level rotation, and the except/finally path.           *)
(*                                                                         *)
(* Every call into a collaborator module (a physics stage, a setup         *)
(* routine, a restart read, the panic snapshot) is one action whose        *)
(* outcome is either a normal return or a raised exception.                *)
(***************************************************************************)
EXTENDS Integers, Sequences, FiniteSets, TLC

VARIABLES
    pc,             \* position in run()
    idx,            \* index of the next call inside the current phase
    flags,          \* the boolean settings read by run/setup/allocate
    profile_mode,   \* self.profile_mode
    profiler,       \* local variable `profiler` of run()
    runlen,         \* argument runlen of run() / self.runlen
    dt_tracer,      \* self.dt_tracer
    itt,            \* self.itt
    enditt,         \* self.enditt
    taum1, tau, taup1,  \* the three time-slot labels
    variables,      \* self.variables: var_name -> descriptor
    data,           \* contents of the time-dependent arrays, per physical slot
    exc,            \* the exception in flight inside run()
    raised,         \* what the caller of run() observes
    log,            \* stages invoked in the current step, in order
    readLog,        \* restart reads performed, in order
    panicCount,     \* number of calls of diagnostics.panic_snap
    timingLogged,   \* the timing summary of the finally block was logged
    failedAt,       \* where the first failure was raised
    itt0,           \* self.itt when run() was entered
    steps,          \* number of time shifts performed
    exchanged,      \* << field, slot >> passed to setcyclic_x in the current step
    backend_name,   \* self.backend_name
    swallowed,      \* the exception flush() passed over in the current step
    timers,         \* self.timers: name -> timer
    clock,          \* logical time: the number of calls made so far
    stepFlags,      \* the settings as they were when the current step began
    flagWrites      \* number of assignments a stage has made to a setting

vars == << pc, idx, flags, profile_mode, profiler, runlen, dt_tracer, itt, enditt,
           taum1, tau, taup1, variables, data, exc, raised, log, readLog,
           panicCount, timingLogged, failedAt, itt0, steps, exchanged, backend_name,
           swallowed, timers, clock, stepFlags, flagWrites >>

labels == << taum1, tau, taup1 >>

----------------------------------------------------------------------------
(* Bounds of the explored inputs.                                          *)

MaxRunLen == 11     \* run lengths range over -MaxRunLen .. MaxRunLen
MaxDt == 2          \* tracer time steps range over 1 .. MaxDt
MaxItt0 == 1        \* start iterations range over 0 .. MaxItt0
MaxSteps == 4       \* run lengths of the slot-label slice range over 0 .. MaxSteps

----------------------------------------------------------------------------
(* Settings.                                                               *)

PipelineFlags == { "enable_idemix", "enable_idemix_M2", "enable_idemix_niw",
                   "enable_eke", "enable_tke", "enable_cyclic_x",
                   "enable_hydrostatic" }

DiagFlags == { "enable_diag_averages", "enable_diag_energy",
               "enable_diag_overturning", "enable_diag_particles" }

FlagNames == PipelineFlags \cup DiagFlags
                \cup { "enable_implicit_vert_friction", "enable_streamfunction" }

NoException == "none"
\* the value of an attribute that no statement has assigned yet; it is never
\* read before the assignment
Unset == 0

NoFailure == [ phase |-> "none", call |-> "none", itt |-> Unset ]

\* getattr(self, name) of a boolean setting
getattr(f, name) == f[name]

----------------------------------------------------------------------------
(* The variable catalog read by allocate().  A condition is the list of    *)
(* the blank-separated words of the condition string.                      *)

Descriptor(name, dims) == [ name |-> name, dims |-> dims ]

MAIN_VARIABLES ==
    { Descriptor("u", "xyzt"), Descriptor("v", "xyzt"), Descriptor("temp", "xyzt") }

CONDITIONAL_VARIABLES ==
    << [ condition |-> << "enable_tke" >>,        vars |-> { Descriptor("tke", "xyzt") } ],
       [ condition |-> << "enable_eke" >>,        vars |-> { Descriptor("eke", "xyzt") } ],
       [ condition |-> << "enable_idemix" >>,     vars |-> { Descriptor("E_iw", "xyzt") } ],
       [ condition |-> << "enable_idemix_M2" >>,  vars |-> { Descriptor("E_M2", "xypt") } ],
       [ condition |-> << "enable_idemix_niw" >>, vars |-> { Descriptor("E_niw", "xypt") } ],
       [ condition |-> << "enable_streamfunction" >>,
         vars |-> { Descriptor("psi", "xyt") } ],
       [ condition |-> << "not", "enable_streamfunction" >>,
         vars |-> { Descriptor("surf_press", "xy") } ] >>

\* condition.startswith("not ")
StartsWithNot(condition) == Len(condition) > 1 /\ Head(condition) = "not"

\* condition[4:] when the condition starts with "not ": the words after it
AfterNot(condition) == Tail(condition)

\* the flag a one-word string names
FlagOf(words) == words[1]

\* mutant: the leading "not" is cut off and then forgotten
EvalConditionIgnoringNot(f, condition) ==
    IF StartsWithNot(condition)
    THEN getattr(f, FlagOf(AfterNot(condition)))
    ELSE getattr(f, FlagOf(condition))

\* lines 104-107: the truth value allocate() gives a condition
EvalCondition(f, condition) ==
    IF StartsWithNot(condition)
    THEN ~ getattr(f, FlagOf(AfterNot(condition)))
    ELSE getattr(f, FlagOf(condition))

\* init_var: self.variables[var_name] = var
InitVars(table, descs) ==
    [ n \in (DOMAIN table) \cup { d.name : d \in descs } |->
        IF \E d \in descs : d.name = n
        THEN CHOOSE d \in descs : d.name = n
        ELSE table[n] ]

EmptyTable == [ n \in {} |-> Descriptor(n, "") ]

RECURSIVE AllocConditional(_, _, _)
AllocConditional(table, f, i) ==
    IF i > Len(CONDITIONAL_VARIABLES) THEN table
    ELSE LET entry == CONDITIONAL_VARIABLES[i]
             next  == IF EvalCondition(f, entry.condition)
                      THEN InitVars(table, entry.vars)
                      ELSE table
         IN  AllocConditional(next, f, i + 1)

\* allocate(): self.variables after the call
Allocate(f) == AllocConditional(InitVars(EmptyTable, MAIN_VARIABLES), f, 1)

----------------------------------------------------------------------------
(* setup(): the calls of lines 265-311, in order.                          *)

SetupCalls ==
    << "set_parameter", "allocate", "set_grid", "calc_grid", "set_coriolis",
       "calc_beta", "set_topography", "calc_topo", "calc_spectral_topo",
       "set_initial_conditions", "calc_initial_conditions", "set_forcing",
       "streamfunction_init", "set_diagnostics", "init_diagnostics", "init_eke",
       "check_isoneutral_slope_crit" >>

\* line 294: the only gated call of setup()
SetupGate(call, f) ==
    IF call = "streamfunction_init" THEN f["enable_streamfunction"] ELSE TRUE

\* mutant: the check looks at implicit friction alone
SetupCheckFailsWithoutFriction(f) == ~ f["enable_implicit_vert_friction"]

\* mutant: the check fires when both flags are off
SetupCheckFailsBothOff(f) ==
    ~ f["enable_tke"] /\ ~ f["enable_implicit_vert_friction"]

\* line 316: the condition under which setup() raises RuntimeError
SetupCheckFails(f) == f["enable_tke"] /\ ~ f["enable_implicit_vert_friction"]

(* The timers.  A timer adds the duration of a scope to its total when the  *)
(* scope is left; time is the logical clock passed in.                     *)

\* lines 62-65
TimerNames ==
    { "setup", "main", "momentum", "temperature", "eke", "idemix", "tke",
      "diagnostics", "pressure", "friction", "isoneutral", "vmix", "eq_of_state" }

NewTimer == [ total |-> 0, running |-> FALSE, startTime |-> 0, starts |-> 0, stops |-> 0 ]

\* entering the scope of timer n at time clk
StartTimer(t, n, clk) ==
    [ t EXCEPT ![n] = [ @ EXCEPT !.running = TRUE, !.startTime = clk,
                                 !.starts = @ + 1 ] ]

\* leaving the scope of timer n at time clk
StopTimer(t, n, clk) ==
    [ t EXCEPT ![n] = [ @ EXCEPT !.running = FALSE, !.stops = @ + 1,
                                 !.total = @ + (clk - t[n].startTime) ] ]

\* the with statement whose block begins with a call of the step: lines 157,
\* 168, 171, 177, 181, 191, 218
ScopeOpenedAt(call) ==
    CASE call = "set_forcing"         -> "main"
      [] call = "momentum"            -> "momentum"
      [] call = "thermodynamics"      -> "temperature"
      [] call = "integrate_eke"       -> "eke"
      [] call = "integrate_idemix_M2" -> "idemix"
      [] call = "integrate_tke"       -> "tke"
      [] call = "diagnose"            -> "diagnostics"
      [] OTHER                        -> "none"

\* the with statement whose block ends with a call of the step: lines 169, 172,
\* 179, 189, 193, 214, 219
ScopeClosedAt(call) ==
    CASE call = "momentum"            -> "momentum"
      [] call = "thermodynamics"      -> "temperature"
      [] call = "integrate_eke"       -> "eke"
      [] call = "wave_interaction"    -> "idemix"
      [] call = "integrate_tke"       -> "tke"
      [] call = "vertical_velocity"   -> "main"
      [] call = "diagnose"            -> "diagnostics"
      [] OTHER                        -> "none"

EnterScope(t, call, clk) ==
    IF ScopeOpenedAt(call) = "none" THEN t ELSE StartTimer(t, ScopeOpenedAt(call), clk)

ExitScope(t, call, clk) ==
    IF ScopeClosedAt(call) = "none" THEN t ELSE StopTimer(t, ScopeClosedAt(call), clk)

\* mutant: the timers are started and stopped by plain calls around the block,
\* so an exception leaves them as they are
UnwindLeavesRunning(t, clk) == t

\* an exception leaves every with block it is raised in: each timer whose scope
\* is open is stopped
Unwind(t, clk) ==
    [ n \in TimerNames |-> IF t[n].running THEN StopTimer(t, n, clk)[n] ELSE t[n] ]

(* run(): the restart reads of lines 134-143, in order.                    *)

\* mutant: the energy diagnostics are read before the main restart and the
\* time averages
RestartReadsReordered ==
    << "diag_energy_read_restart", "read_restart", "diag_averages_read_restart",
       "diag_over_read_restart", "diag_particles_read_restart" >>

RestartReads ==
    << "read_restart", "diag_averages_read_restart", "diag_energy_read_restart",
       "diag_over_read_restart", "diag_particles_read_restart" >>

RestartGate(call, f) ==
    CASE call = "read_restart"                -> TRUE
      [] call = "diag_averages_read_restart"  -> f["enable_diag_averages"]
      [] call = "diag_energy_read_restart"    -> f["enable_diag_energy"]
      [] call = "diag_over_read_restart"      -> f["enable_diag_overturning"]
      [] call = "diag_particles_read_restart" -> f["enable_diag_particles"]

\* mutant: floor division (the // operator, or integer operands under Python 2)
FloorOfQuotient(a, b) == a \div b

\* int(x) of the float quotient a / b, b > 0: the fractional part is dropped
IntOfQuotient(a, b) == IF a >= 0 THEN a \div b ELSE -((-a) \div b)

\* line 145
ComputeEnditt(start, len, dt) == start + IntOfQuotient(len, dt)

\* mutant: the loop test admits the end iteration itself
LoopCondInclusive(i, e) == i <= e

\* line 151
LoopCond(i, e) == i < e

(* run(): the calls of one step, lines 158-219, in order.                  *)

\* mutant: the tracer step is taken before the momentum step, and the TKE
\* integration before the wave interaction
PipelineReordered ==
    << "set_forcing", "set_idemix_parameter", "set_spectral_parameter",
       "set_eke_diffusivities", "set_tke_diffusivities", "thermodynamics",
       "momentum", "calculate_velocity_on_wgrid", "integrate_eke",
       "integrate_idemix_M2", "integrate_idemix_niw", "integrate_idemix",
       "integrate_tke", "wave_interaction",
       "setcyclic_x_u", "setcyclic_x_v", "setcyclic_x_tke", "setcyclic_x_eke",
       "setcyclic_x_E_iw", "setcyclic_x_E_M2", "setcyclic_x_E_niw",
       "vertical_velocity", "flush", "diagnose" >>

Pipeline ==
    << "set_forcing", "set_idemix_parameter", "set_spectral_parameter",
       "set_eke_diffusivities", "set_tke_diffusivities", "momentum",
       "thermodynamics", "calculate_velocity_on_wgrid", "integrate_eke",
       "integrate_idemix_M2", "integrate_idemix_niw", "integrate_idemix",
       "wave_interaction", "integrate_tke",
       "setcyclic_x_u", "setcyclic_x_v", "setcyclic_x_tke", "setcyclic_x_eke",
       "setcyclic_x_E_iw", "setcyclic_x_E_M2", "setcyclic_x_E_niw",
       "vertical_velocity", "flush", "diagnose" >>

\* mutant: the spectral parameters are set only inside the idemix branch
SpectralCondUnderIdemix(f) ==
    f["enable_idemix"] /\ (f["enable_idemix_M2"] \/ f["enable_idemix_niw"])

\* line 162: an if of its own, not nested in the if of line 160
SpectralCond(f) == f["enable_idemix_M2"] \/ f["enable_idemix_niw"]

\* mutant: the velocity on the w grid is computed for the EKE and TKE models only
WgridCondWithoutIdemix(f) == f["enable_eke"] \/ f["enable_tke"]

\* line 174
WgridCond(f) == f["enable_eke"] \/ f["enable_tke"] \/ f["enable_idemix"]

\* the condition, read from the settings when the call is reached, under which
\* a call of the step is made
Gate(call, f) ==
    CASE call = "set_forcing"                 -> TRUE
      [] call = "set_idemix_parameter"        -> f["enable_idemix"]
      [] call = "set_spectral_parameter"      -> SpectralCond(f)
      [] call = "set_eke_diffusivities"       -> TRUE
      [] call = "set_tke_diffusivities"       -> TRUE
      [] call = "momentum"                    -> TRUE
      [] call = "thermodynamics"              -> TRUE
      [] call = "calculate_velocity_on_wgrid" -> WgridCond(f)
      [] call = "integrate_eke"               -> f["enable_eke"]
      [] call = "integrate_idemix_M2"         -> f["enable_idemix_M2"]
      [] call = "integrate_idemix_niw"        -> f["enable_idemix_niw"]
      [] call = "integrate_idemix"            -> f["enable_idemix"]
      [] call = "wave_interaction"            -> f["enable_idemix_M2"] \/ f["enable_idemix_niw"]
      [] call = "integrate_tke"               -> f["enable_tke"]
      [] call = "setcyclic_x_u"               -> f["enable_cyclic_x"]
      [] call = "setcyclic_x_v"               -> f["enable_cyclic_x"]
      [] call = "setcyclic_x_tke"             -> f["enable_cyclic_x"] /\ f["enable_tke"]
      [] call = "setcyclic_x_eke"             -> f["enable_cyclic_x"] /\ f["enable_eke"]
      [] call = "setcyclic_x_E_iw"            -> f["enable_cyclic_x"] /\ f["enable_idemix"]
      [] call = "setcyclic_x_E_M2"            -> f["enable_cyclic_x"] /\ f["enable_idemix_M2"]
      [] call = "setcyclic_x_E_niw"           -> f["enable_cyclic_x"] /\ f["enable_idemix_niw"]
      [] call = "vertical_velocity"           -> f["enable_hydrostatic"]
      [] call = "flush"                       -> TRUE
      [] call = "diagnose"                    -> TRUE

\* line 17: the array modules a PyOM object can be built on
BACKENDS == { "numpy", "bohrium" }

\* line 115: the attribute lookup self.backend.flush succeeds on the bohrium
\* module and raises AttributeError on the numpy module
HasFlush(b) == b = "bohrium"

\* the two origins of an AttributeError in line 115: the lookup of the attribute
\* flush on the backend, and the body of a backend flush() that exists
AttributeErrors == { "AttributeError:no_flush", "AttributeError:in_flush" }

\* what a call of the step can do: return, or raise
Outcomes(call, b) ==
    IF call = "flush"
    THEN IF HasFlush(b) THEN { "ok", "AttributeError:in_flush", "StageFailure" }
         ELSE { "AttributeError:no_flush" }
    ELSE { "ok", "StageFailure" }

\* flush(), lines 113-117: the except clause matches on the class of the
\* exception, so every AttributeError leaving line 115 is passed over
FlushResult(outcome) == IF outcome \in AttributeErrors THEN "ok" ELSE outcome

\* the exception the except clause of flush() has passed over
Swallowed(outcome) ==
    IF outcome # "ok" /\ FlushResult(outcome) = "ok" THEN outcome ELSE "none"

\* what the call leaves in run(): "ok" or the exception that propagates
CallResult(call, outcome) ==
    IF call = "flush" THEN FlushResult(outcome) ELSE outcome

\* lines 199-210: the array each cyclic exchange is applied to
ExchangedField(call) ==
    CASE call = "setcyclic_x_u"     -> "u"
      [] call = "setcyclic_x_v"     -> "v"
      [] call = "setcyclic_x_tke"   -> "tke"
      [] call = "setcyclic_x_eke"   -> "eke"
      [] call = "setcyclic_x_E_iw"  -> "E_iw"
      [] call = "setcyclic_x_E_M2"  -> "E_M2"
      [] call = "setcyclic_x_E_niw" -> "E_niw"
      [] OTHER                      -> "none"

\* mutant: the exchange is applied to the slice [:, :, :, self.tau]
ExchangeSlotCurrent(l) == l[2]

\* lines 199-210: every exchange is given the slice [:, :, :, self.taup1]
ExchangeSlot(l) == l[3]

\* the << field, slot >> pairs a call of the step passes to setcyclic_x
Exchange(call, l) ==
    IF ExchangedField(call) = "none" THEN { }
    ELSE { << ExchangedField(call), ExchangeSlot(l) >> }

\* the time-dependent arrays the model follows, and the stage that writes each
TimeFields == { "u", "temp" }

WriterOf(field) == IF field = "u" THEN "momentum" ELSE "thermodynamics"

\* a stage writes its result into the slot labelled taup1 of its field; the value
\* stored is << k >>, k the iteration in which it was written (<< >> is the
\* zero array allocate() makes)
StageWrites(d, call, slot, stamp) ==
    [ fld \in TimeFields |->
        IF WriterOf(fld) = call THEN [ d[fld] EXCEPT ![slot] = stamp ] ELSE d[fld] ]

\* mutant: no temporary, taup1 is assigned from the already overwritten taum1
ShiftLabelsNoTemp(l) == << l[2], l[3], l[2] >>

\* mutant: the labels are shifted the other way round
ShiftLabelsBackward(l) == << l[3], l[1], l[2] >>

\* lines 222-225: the labels << taum1, tau, taup1 >> after the shift
ShiftLabels(l) == << l[2], l[3], l[1] >>

----------------------------------------------------------------------------
(* Initial states: a PyOM object whose settings hold the values the model  *)
(* set-up configures, and a pending call run(snapint, runlen).  The inputs *)
(* are explored in slices, each varying one group of inputs.               *)

AllOff == [ n \in FlagNames |-> FALSE ]
AllOn  == [ n \in FlagNames |-> TRUE ]

FlagsOver(free, base) ==
    { f \in [ FlagNames -> BOOLEAN ] : \A n \in FlagNames \ free : f[n] = base[n] }

Slots == { 0, 1, 2 }

Permutations3 ==
    { l \in Slots \X Slots \X Slots : { l[1], l[2], l[3] } = Slots }

Zeros == [ fld \in TimeFields |-> [ s \in Slots |-> << >> ] ]

CatalogFlags == { "enable_tke", "enable_eke", "enable_idemix", "enable_idemix_M2",
                  "enable_idemix_niw", "enable_streamfunction" }

SetLabels(l) == taum1 = l[1] /\ tau = l[2] /\ taup1 = l[3]

\* every combination of the flags that gate the stages of a step, one step
PipelineSlice ==
    /\ flags \in FlagsOver(PipelineFlags \cup { "enable_implicit_vert_friction" }, AllOff)
    /\ SetLabels(<< 0, 1, 2 >>)
    /\ profile_mode = FALSE
    /\ backend_name = "bohrium"
    /\ runlen = 1 /\ dt_tracer = 1 /\ itt = 0

\* every combination of the flags read by setup(), allocate() and the restart
\* reads, no step
SetupSlice ==
    /\ \/ /\ flags \in FlagsOver(CatalogFlags \cup { "enable_implicit_vert_friction" },
                                  AllOff)
          /\ runlen = 0
       \/ /\ flags \in FlagsOver(DiagFlags \cup { "enable_tke",
                                                  "enable_implicit_vert_friction" }, AllOff)
          /\ runlen \in { 0, 1 }
    /\ SetLabels(<< 0, 1, 2 >>)
    /\ profile_mode = FALSE
    /\ backend_name = "numpy"
    /\ dt_tracer = 1 /\ itt = 0

\* every initial labelling of the slots, with and without profiling
LabelSlice ==
    /\ flags = AllOn
    /\ \E l \in Permutations3 : SetLabels(l)
    /\ profile_mode \in BOOLEAN
    /\ backend_name \in BACKENDS
    /\ runlen \in 0 .. MaxSteps /\ dt_tracer = 1 /\ itt = 0

\* every start iteration, run length and time step
NumericSlice ==
    /\ flags = AllOff
    /\ SetLabels(<< 0, 1, 2 >>)
    /\ profile_mode = FALSE
    /\ backend_name \in BACKENDS
    /\ runlen \in (0 - MaxRunLen) .. MaxRunLen
    /\ dt_tracer \in 1 .. MaxDt
    /\ itt \in 0 .. MaxItt0

\* the object after __init__, run() not yet entered
Constructed ==
    /\ pc = "idle"
    /\ idx = 0
    /\ profiler = "unbound"
    /\ enditt = Unset
    /\ variables = EmptyTable
    /\ data = Zeros
    /\ exc = NoException
    /\ raised = NoException
    /\ log = << >>
    /\ readLog = << >>
    /\ panicCount = 0
    /\ timingLogged = FALSE
    /\ failedAt = NoFailure
    /\ itt0 = itt
    /\ steps = 0
    /\ exchanged = { }
    /\ swallowed = "none"
    /\ timers = [ n \in TimerNames |-> NewTimer ]
    /\ clock = 0
    /\ stepFlags = flags
    /\ flagWrites = 0

Init ==
    /\ PipelineSlice \/ SetupSlice \/ LabelSlice \/ NumericSlice
    /\ Constructed

\* the settings a stage assigns to in the runs that follow such assignments
WritableFlags == { "enable_idemix", "enable_eke", "enable_tke" }

MaxFlagWrites == 1

\* initial states of the runs in which a stage assigns to a setting
MutSlice ==
    /\ flags \in { AllOn, AllOff }
    /\ SetLabels(<< 0, 1, 2 >>)
    /\ profile_mode = FALSE
    /\ backend_name = "bohrium"
    /\ runlen \in { 1, 2 } /\ dt_tracer = 1 /\ itt = 0

InitMut == MutSlice /\ Constructed

----------------------------------------------------------------------------
(* Actions.                                                                *)

inputVars == << profile_mode, runlen, dt_tracer, itt0, backend_name >>
settingsVars == << flags, flagWrites, inputVars >>
stepGhosts == << exchanged, swallowed, stepFlags >>
timerVars == << timers, clock >>
ghostVars == << log, readLog, panicCount, timingLogged, failedAt, steps, stepGhosts >>

\* lines 120-124: run() is entered
Run ==
    /\ pc = "idle"
    /\ pc' = "setup"
    /\ idx' = 1
    /\ timers' = StartTimer(timers, "setup", clock)
    /\ UNCHANGED << settingsVars, ghostVars, profiler, itt, enditt, taum1, tau, taup1,
                    variables, data, exc, raised, clock >>

\* an exception leaves run() from inside the setup block (lines 124-147), which
\* no try statement encloses
RaiseFromSetup(kind, phase, call) ==
    /\ pc' = "done"
    /\ idx' = 0
    /\ raised' = kind
    /\ failedAt' = [ phase |-> phase, call |-> call, itt |-> itt ]
    /\ clock' = clock + 1
    /\ timers' = Unwind(timers, clock + 1)
    /\ UNCHANGED << settingsVars, profiler, itt, enditt, taum1, tau, taup1,
                    variables, data, exc, log, readLog, panicCount, timingLogged, steps,
                    stepGhosts >>

\* lines 265-311: one call of setup()
SetupCall ==
    /\ pc = "setup"
    /\ LET call == SetupCalls[idx]
           advance == /\ pc' = IF idx < Len(SetupCalls) THEN "setup" ELSE "check_setup"
                      /\ idx' = IF idx < Len(SetupCalls) THEN idx + 1 ELSE 0
                      /\ UNCHANGED << settingsVars, ghostVars, profiler, itt, enditt,
                                      taum1, tau, taup1, exc, raised >>
       IN  IF ~ SetupGate(call, flags)
           THEN advance /\ UNCHANGED << variables, data, timerVars >>
           ELSE \E outcome \in { "ok", "SetupFailure" } :
                  IF outcome = "ok"
                  THEN /\ advance
                       /\ clock' = clock + 1
                       /\ UNCHANGED timers
                       /\ variables' = IF call = "allocate" THEN Allocate(flags)
                                       ELSE variables
                       /\ data' = IF call = "allocate" THEN Zeros ELSE data
                  ELSE RaiseFromSetup(outcome, "setup", call)

\* lines 316-318: the check that ends setup()
CheckSetup ==
    /\ pc = "check_setup"
    /\ IF SetupCheckFails(flags)
       THEN RaiseFromSetup("RuntimeError", "check", "setup")
       ELSE /\ pc' = "restart"
            /\ idx' = 1
            /\ UNCHANGED << settingsVars, ghostVars, profiler, itt, enditt, taum1, tau,
                            taup1, variables, data, exc, raised, timerVars >>

\* lines 134-143: one restart read
RestartRead ==
    /\ pc = "restart"
    /\ LET call == RestartReads[idx]
           advance == /\ pc' = IF idx < Len(RestartReads) THEN "restart" ELSE "enditt"
                      /\ idx' = IF idx < Len(RestartReads) THEN idx + 1 ELSE 0
                      /\ UNCHANGED << settingsVars, profiler, itt, enditt, taum1, tau,
                                      taup1, variables, data, exc, raised, log,
                                      panicCount, timingLogged, failedAt, steps,
                                      stepGhosts >>
       IN  IF ~ RestartGate(call, flags)
           THEN advance /\ UNCHANGED << readLog, timerVars >>
           ELSE \E outcome \in { "ok", "RestartFailure" } :
                  IF outcome = "ok"
                  THEN /\ advance
                       /\ readLog' = Append(readLog, call)
                       /\ clock' = clock + 1
                       /\ UNCHANGED timers
                  ELSE RaiseFromSetup(outcome, "restart", call)

\* line 145
SetEnditt ==
    /\ pc = "enditt"
    /\ enditt' = ComputeEnditt(itt, runlen, dt_tracer)
    /\ pc' = "loop"
    /\ timers' = StopTimer(timers, "setup", clock)
    /\ UNCHANGED << idx, settingsVars, ghostVars, profiler, itt, taum1, tau, taup1,
                    variables, data, exc, raised, clock >>

\* line 152
ProfiledIteration == 3

\* lines 151-155: the loop test, and the start of the profiler
LoopHead ==
    /\ pc = "loop"
    /\ IF LoopCond(itt, enditt)
       THEN /\ pc' = "step"
            /\ idx' = 1
            /\ log' = << >>
            /\ exchanged' = { }
            /\ swallowed' = "none"
            /\ stepFlags' = flags
            /\ profiler' = IF itt = ProfiledIteration /\ profile_mode
                           THEN "started" ELSE profiler
       ELSE /\ pc' = "finally"
            /\ idx' = 0
            /\ UNCHANGED << log, stepGhosts, profiler >>
    /\ UNCHANGED << settingsVars, itt, enditt, taum1, tau, taup1, variables, data,
                    exc, raised, readLog, panicCount, timingLogged, failedAt, steps,
                    timerVars >>

\* lines 158-219: one call of the step, made if its gate holds; f and w are the
\* settings and the count of assignments to them that the call leaves behind
Stage(f, w) ==
    /\ pc = "step"
    /\ LET call == Pipeline[idx]
           advance == /\ pc' = IF idx < Len(Pipeline) THEN "step" ELSE "shift_time"
                      /\ idx' = IF idx < Len(Pipeline) THEN idx + 1 ELSE 0
                      /\ UNCHANGED << exc, failedAt >>
           entered == EnterScope(timers, call, clock)
       IN  IF ~ Gate(call, flags)
           THEN /\ advance
                /\ timers' = ExitScope(entered, call, clock)
                /\ UNCHANGED << log, data, stepGhosts, clock >>
           ELSE \E outcome \in Outcomes(call, backend_name) :
                  /\ log' = Append(log, call)
                  /\ exchanged' = exchanged \cup Exchange(call, labels)
                  /\ swallowed' = IF call = "flush" THEN Swallowed(outcome) ELSE swallowed
                  /\ clock' = clock + 1
                  /\ UNCHANGED stepFlags
                  /\ IF CallResult(call, outcome) = "ok"
                     THEN /\ advance
                          /\ data' = StageWrites(data, call, taup1, << itt >>)
                          /\ timers' = ExitScope(entered, call, clock + 1)
                     ELSE /\ timers' = Unwind(entered, clock + 1)
                          /\ pc' = "except"
                          /\ idx' = 0
                          /\ exc' = CallResult(call, outcome)
                          /\ failedAt' = [ phase |-> "loop", call |-> call, itt |-> itt ]
                          /\ UNCHANGED data
    /\ flags' = f
    /\ flagWrites' = w
    /\ UNCHANGED << inputVars, profiler, itt, enditt, taum1, tau, taup1, variables,
                    raised, readLog, panicCount, timingLogged, steps >>

\* a call of the step that leaves the settings as they are
RunStage == Stage(flags, flagWrites)

\* the calls that are handed the PyOM object itself (the exchanges are handed
\* an array, flush() calls the backend)
ReceivesModel(call) == ExchangedField(call) = "none" /\ call # "flush"

\* a call of the step that assigns to one of the settings of the object it is
\* handed
SetFlagInStage ==
    /\ pc = "step"
    /\ flagWrites < MaxFlagWrites
    /\ Gate(Pipeline[idx], flags)
    /\ ReceivesModel(Pipeline[idx])
    /\ \E n \in WritableFlags :
          Stage([ flags EXCEPT ![n] = ~ flags[n] ], flagWrites + 1)

\* mutant: the counter is incremented but the labels are not shifted
ShiftTimeWithoutRotation ==
    /\ pc = "shift_time"
    /\ itt' = itt + 1
    /\ steps' = steps + 1
    /\ pc' = "loop"
    /\ UNCHANGED << idx, settingsVars, profiler, enditt, taum1, tau, taup1, variables,
                    data, exc, raised, log, readLog, panicCount, timingLogged, failedAt,
                    stepGhosts, timerVars >>

\* lines 221-226: shift time
ShiftTime ==
    /\ pc = "shift_time"
    /\ taum1' = ShiftLabels(labels)[1]
    /\ tau'   = ShiftLabels(labels)[2]
    /\ taup1' = ShiftLabels(labels)[3]
    /\ itt' = itt + 1
    /\ steps' = steps + 1
    /\ pc' = "loop"
    /\ UNCHANGED << idx, settingsVars, profiler, enditt, variables, data, exc, raised,
                    log, readLog, panicCount, timingLogged, failedAt, stepGhosts,
                    timerVars >>

\* what the except clause leaves in flight: the panic snapshot returned and the
\* bare raise re-raises the caught exception, or the snapshot itself raised
AfterPanicSnap(caught, outcome) == IF outcome = "ok" THEN caught ELSE outcome

\* mutant: the except clause re-raises without calling the panic snapshot
ExceptWithoutSnapshot ==
    /\ pc = "except"
    /\ pc' = "finally"
    /\ UNCHANGED << idx, settingsVars, profiler, itt, enditt, taum1, tau, taup1,
                    variables, data, exc, raised, ghostVars, timerVars >>

\* lines 230-232: the except clause
Except ==
    /\ pc = "except"
    /\ panicCount' = panicCount + 1
    /\ \E outcome \in { "ok", "SnapshotFailure" } :
          exc' = AfterPanicSnap(exc, outcome)
    /\ pc' = "finally"
    /\ UNCHANGED << idx, settingsVars, profiler, itt, enditt, taum1, tau, taup1,
                    variables, data, raised, log, readLog, timingLogged, failedAt, steps,
                    stepGhosts, timerVars >>

\* mutant: the timing summary follows the try statement instead of being in
\* its finally clause, so an exception skips it
FinallyOnSuccessOnly ==
    /\ pc = "finally"
    /\ timingLogged' = (exc = NoException)
    /\ profiler' = IF profile_mode /\ profiler # "unbound" THEN "stopped" ELSE profiler
    /\ raised' = exc
    /\ pc' = "done"
    /\ UNCHANGED << idx, settingsVars, itt, enditt, taum1, tau, taup1, variables, data,
                    exc, log, readLog, panicCount, failedAt, steps, stepGhosts,
                    timerVars >>

\* lines 234-256: the finally clause, after which run() returns or the
\* exception in flight reaches the caller
Finally ==
    /\ pc = "finally"
    /\ timingLogged' = TRUE
    /\ profiler' = IF profile_mode /\ profiler # "unbound" THEN "stopped" ELSE profiler
    /\ raised' = exc
    /\ pc' = "done"
    /\ UNCHANGED << idx, settingsVars, itt, enditt, taum1, tau, taup1, variables, data,
                    exc, log, readLog, panicCount, failedAt, steps, stepGhosts,
                    timerVars >>

Next ==
    \/ Run
    \/ SetupCall
    \/ CheckSetup
    \/ RestartRead
    \/ SetEnditt
    \/ LoopHead
    \/ RunStage
    \/ ShiftTime
    \/ Except
    \/ Finally

Spec == Init /\ [][Next]_vars

\* the interpreter runs the next statement of run() as long as there is one
FairSpec == Spec /\ WF_vars(Next)

\* the runs in which the stages may assign to the settings
NextMut ==
    \/ Next
    \/ SetFlagInStage

MutSpec == InitMut /\ [][NextMut]_vars

----------------------------------------------------------------------------
(* Properties of the failure path.                                         *)

InLoopBody == pc \in { "step", "shift_time" }

\* C1: when a stage of step k fails, the panic snapshot is called exactly once,
\* the failing stage is the last call of the run, no time shift follows it
\* and the iteration counter is still k when run() exits.
C1_StageFailureAborts ==
    failedAt.phase = "loop" =>
        /\ pc \in { "except", "finally", "done" }
        /\ itt = failedAt.itt
        /\ steps = failedAt.itt - itt0
        /\ log # << >> /\ log[Len(log)] = failedAt.call
        /\ panicCount = IF pc = "except" THEN 0 ELSE 1
        /\ pc = "done" => raised # NoException

C1_Witness ==
    /\ pc = "done"
    /\ failedAt.phase = "loop"
    /\ failedAt.call = "integrate_tke"
    /\ failedAt.itt = 2
    /\ itt = 2
    /\ panicCount = 1

\* C2: when a stage fails and the panic snapshot then fails too, the caller of
\* run() still observes the stage's failure.
C2_SnapshotFailureSuppressed ==
    (pc = "done" /\ failedAt.phase = "loop") => raised = "StageFailure"

----------------------------------------------------------------------------
(* Properties of the time-level rotation.                                  *)

\* C3: the slot labels are a permutation of {0,1,2} in every state in which a
\* stage, the diagnostics, the panic snapshot or the caller can read them.
C3_LabelsArePermutation ==
    /\ { taum1, tau, taup1 } = Slots
    /\ taum1 # tau /\ tau # taup1 /\ taup1 # taum1

C3_Witness ==
    /\ pc = "done"
    /\ failedAt.phase = "loop"
    /\ steps = 2
    /\ labels = << 1, 0, 2 >>

\* what a stage wrote into the next slot in step k is in the current slot all
\* through step k+1 and in the previous slot all through step k+2, for every
\* field
C4_SentinelInv ==
    InLoopBody =>
        \A fld \in TimeFields :
            /\ steps >= 1 => data[fld][tau] = << itt - 1 >>
            /\ steps >= 2 => data[fld][taum1] = << itt - 2 >>

\* C4: the sentinel is read back from current and then previous, and the time
\* shift itself assigns the three labels cyclically and touches no array.
C4_RotationRelabelsOnly ==
    /\ [] C4_SentinelInv
    /\ [][ pc = "shift_time" =>
             /\ data' = data
             /\ taum1' = tau /\ tau' = taup1 /\ taup1' = taum1 ]_vars

C4_Witness ==
    /\ pc = "step"
    /\ Pipeline[idx] = "diagnose"
    /\ steps = 2
    /\ data["u"][taup1] = << itt >>
    /\ data["u"][tau] = << itt - 1 >>
    /\ data["temp"][taum1] = << itt - 2 >>

\* C5: in every completed step the time shift and the increment of the
\* iteration counter happen once, together, right after the diagnostics call
\* has returned and before the forcing call of the next step; inside a step
\* neither the labels nor the counter change.
C5_OneShiftPerStep ==
    /\ [] (pc \in { "loop", "step", "shift_time" } => steps = itt - itt0)
    /\ [][ (labels' # labels \/ itt' # itt) => pc = "shift_time" ]_vars
    /\ [][ pc = "shift_time" =>
             /\ labels' = << tau, taup1, taum1 >>
             /\ itt' = itt + 1
             /\ pc' = "loop" ]_vars
    /\ [][ (pc' = "shift_time" /\ pc # "shift_time") =>
             (pc = "step" /\ Pipeline[idx] = "diagnose") ]_vars
    /\ [][ (pc = "loop" /\ pc' = "step") => Pipeline[idx'] = "set_forcing" ]_vars

C5_Witness ==
    /\ pc = "step"
    /\ Pipeline[idx] = "set_forcing"
    /\ steps = 3
    /\ itt = itt0 + 3

----------------------------------------------------------------------------
(* Properties of the end iteration and of termination.                     *)

\* line 145 has been executed
EndittSet ==
    \/ pc \in { "loop", "step", "shift_time", "except", "finally" }
    \/ pc = "done" /\ failedAt.phase \in { "none", "loop" }

\* C6 as stated: the end iteration is the start iteration plus the floor of
\* run length / time step, for run lengths of either sign.
C6_EndittIsFloor ==
    EndittSet => enditt = itt0 + (runlen \div dt_tracer)

\* C6 as amended: the quotient is cut towards zero, which is the floor for a
\* run length >= 0 and the ceiling for a run length < 0.
C6_EndittTruncates ==
    EndittSet =>
        LET q == enditt - itt0
        IN  /\ runlen >= 0 => (q * dt_tracer <= runlen /\ runlen < (q + 1) * dt_tracer)
            /\ runlen < 0  => ((q - 1) * dt_tracer < runlen /\ runlen <= q * dt_tracer)
            /\ (itt0 = 0 /\ dt_tracer = 2 /\ runlen \in { 10, 11 }) => enditt = 5

C6_Witness ==
    /\ pc = "done"
    /\ raised = NoException
    /\ dt_tracer = 2
    /\ runlen = 0 - 11
    /\ enditt = itt0 - 5

Max(a, b) == IF a >= b THEN a ELSE b

\* C7: run() terminates; a run in which nothing fails makes exactly
\* max(0, enditt - start) steps and, if it made one, ends with the counter at
\* enditt; enditt is assigned once and never again.
C7_Terminates ==
    /\ <> (pc = "done")
    /\ [] ((pc = "done" /\ raised = NoException) =>
               /\ steps = Max(0, enditt - itt0)
               /\ steps >= 1 => itt = enditt)
    /\ [][ EndittSet => enditt' = enditt ]_vars

C7_Witness ==
    /\ pc = "done"
    /\ raised = NoException
    /\ steps = 5
    /\ itt = enditt

----------------------------------------------------------------------------
(* Properties of setup() and allocate().                                   *)

\* C8: with the TKE closure on and implicit vertical friction off, run() ends
\* in setup with the configuration error (unless an earlier setup call has
\* already failed), before any restart read and before any stage; with any
\* other values of the two flags the check raises nothing.
C8_TkeNeedsImplicitFriction ==
    IF flags["enable_tke"] /\ ~ flags["enable_implicit_vert_friction"]
    THEN /\ pc \in { "idle", "setup", "check_setup", "done" }
         /\ readLog = << >> /\ log = << >> /\ steps = 0
         /\ pc = "done" =>
               /\ raised \in { "RuntimeError", "SetupFailure" }
               /\ raised = "RuntimeError" <=> failedAt.phase = "check"
    ELSE raised # "RuntimeError" /\ failedAt.phase # "check"

C8_Witness ==
    /\ pc = "done"
    /\ raised = "RuntimeError"
    /\ flags["enable_tke"] /\ ~ flags["enable_implicit_vert_friction"]
    /\ readLog = << >>
    /\ DOMAIN variables # {}

AllocateReturned ==
    CASE pc = "idle"  -> FALSE
      [] pc = "setup" -> idx > 2
      [] pc = "done"  -> ~ (failedAt.phase = "setup"
                            /\ failedAt.call \in { "set_parameter", "allocate" })
      [] OTHER        -> TRUE

ExpectedFields ==
    { "u", "v", "temp" }
      \cup (IF flags["enable_tke"] THEN { "tke" } ELSE {})
      \cup (IF flags["enable_eke"] THEN { "eke" } ELSE {})
      \cup (IF flags["enable_idemix"] THEN { "E_iw" } ELSE {})
      \cup (IF flags["enable_idemix_M2"] THEN { "E_M2" } ELSE {})
      \cup (IF flags["enable_idemix_niw"] THEN { "E_niw" } ELSE {})
      \cup (IF flags["enable_streamfunction"] THEN { "psi" } ELSE { "surf_press" })

CatalogDescriptors ==
    MAIN_VARIABLES \cup UNION { CONDITIONAL_VARIABLES[i].vars :
                                  i \in 1 .. Len(CONDITIONAL_VARIABLES) }

\* C9: after allocate() the recorded fields are the unconditional ones and the
\* conditional ones whose flag (or negated flag) holds, and nothing else; each
\* is recorded with its own descriptor.
C9_AllocatedIffPredicate ==
    AllocateReturned =>
        /\ DOMAIN variables = ExpectedFields
        /\ \A n \in DOMAIN variables :
              variables[n] \in CatalogDescriptors /\ variables[n].name = n

C9_Witness ==
    /\ pc = "check_setup"
    /\ flags["enable_idemix_M2"] /\ ~ flags["enable_streamfunction"]
    /\ ~ flags["enable_tke"]
    /\ DOMAIN variables = { "u", "v", "temp", "E_M2", "surf_press" }

\* C10 as stated: every failing run logs the timing summary and attempts a
\* panic snapshot before the error leaves run().
C10_EveryFailureSnapshots ==
    (pc = "done" /\ raised # NoException) => (timingLogged /\ panicCount >= 1)

\* C10 as amended: a run that fails in a stage of the step loop logs the
\* timing summary and calls the panic snapshot once before an error leaves
\* run(); a run that fails in setup, in the configuration check or in a
\* restart read does neither.
C10_LoopFailureSnapshots ==
    (pc = "done" /\ raised # NoException) =>
        IF failedAt.phase = "loop"
        THEN timingLogged /\ panicCount = 1
        ELSE /\ failedAt.phase \in { "setup", "check", "restart" }
             /\ ~ timingLogged /\ panicCount = 0

C10_Witness ==
    /\ pc = "done"
    /\ raised = "StageFailure"
    /\ failedAt.call = "set_forcing"
    /\ timingLogged
    /\ panicCount = 1

----------------------------------------------------------------------------
(* Further properties of the rotation and of the setup check.              *)

\* C12 as stated: the position labelled previous after a rotation is the
\* position that was labelled next before it.
C12_PreviousIsOldNext ==
    [][ pc = "shift_time" => taum1' = taup1 ]_vars

\* C12 as amended: the position labelled next after a rotation is the position
\* that was labelled previous before it, and the position labelled previous
\* after it is the one that was labelled current.
C12_NextIsOldPrevious ==
    [][ pc = "shift_time" => (taup1' = taum1 /\ taum1' = tau) ]_vars

C12_Witness ==
    /\ pc = "loop"
    /\ steps = 1
    /\ ~ flags["enable_eke"]
    /\ labels = << 1, 2, 0 >>

\* the run has gone past setup() and its check
PastSetup ==
    \/ pc \in { "restart", "enditt", "loop", "step", "shift_time", "except", "finally" }
    \/ pc = "done" /\ failedAt.phase \in { "none", "loop", "restart" }

\* C13 as stated: with the TKE closure off and implicit vertical friction off,
\* run() raises the configuration error before any restart read and any step.
C13_BothOffRaises ==
    (~ flags["enable_tke"] /\ ~ flags["enable_implicit_vert_friction"]) =>
        /\ ~ PastSetup
        /\ pc = "done" => raised \in { "RuntimeError", "SetupFailure" }

\* C13 as amended: the configuration error is raised, before any restart read
\* and any step, when the TKE closure is on and implicit vertical friction is
\* off; with both off the check passes and the run goes on to the restart reads.
C13_TkeOnFrictionOffRaises ==
    /\ (flags["enable_tke"] /\ ~ flags["enable_implicit_vert_friction"]) =>
          /\ ~ PastSetup
          /\ readLog = << >> /\ steps = 0
          /\ pc = "done" => raised \in { "RuntimeError", "SetupFailure" }
    /\ (~ flags["enable_tke"] /\ ~ flags["enable_implicit_vert_friction"]) =>
          /\ raised # "RuntimeError"
          /\ pc = "done" => (failedAt.phase # "check")

C13_Witness ==
    /\ pc = "step"
    /\ ~ flags["enable_tke"] /\ ~ flags["enable_implicit_vert_friction"]
    /\ readLog = << "read_restart" >>
    /\ raised = NoException

----------------------------------------------------------------------------
(* Properties of the order of the stages.                                  *)

CanonicalOrder ==
    << "set_forcing", "set_idemix_parameter", "set_spectral_parameter",
       "set_eke_diffusivities", "set_tke_diffusivities", "momentum",
       "thermodynamics", "calculate_velocity_on_wgrid", "integrate_eke",
       "integrate_idemix_M2", "integrate_idemix_niw", "integrate_idemix",
       "wave_interaction", "integrate_tke",
       "setcyclic_x_u", "setcyclic_x_v", "setcyclic_x_tke", "setcyclic_x_eke",
       "setcyclic_x_E_iw", "setcyclic_x_E_M2", "setcyclic_x_E_niw",
       "vertical_velocity", "flush", "diagnose" >>

Rank(call) == CHOOSE i \in 1 .. Len(CanonicalOrder) : CanonicalOrder[i] = call

Unconditional ==
    { "set_forcing", "set_eke_diffusivities", "set_tke_diffusivities", "momentum",
      "thermodynamics", "flush", "diagnose" }

\* the calls of a step whose condition holds under the settings f
Due(f) ==
    Unconditional
    \cup (IF f["enable_idemix"]
          THEN { "set_idemix_parameter", "integrate_idemix" } ELSE { })
    \cup (IF f["enable_idemix_M2"] \/ f["enable_idemix_niw"]
          THEN { "set_spectral_parameter", "wave_interaction" } ELSE { })
    \cup (IF f["enable_eke"] \/ f["enable_tke"] \/ f["enable_idemix"]
          THEN { "calculate_velocity_on_wgrid" } ELSE { })
    \cup (IF f["enable_eke"] THEN { "integrate_eke" } ELSE { })
    \cup (IF f["enable_idemix_M2"] THEN { "integrate_idemix_M2" } ELSE { })
    \cup (IF f["enable_idemix_niw"] THEN { "integrate_idemix_niw" } ELSE { })
    \cup (IF f["enable_tke"] THEN { "integrate_tke" } ELSE { })
    \cup (IF f["enable_cyclic_x"]
          THEN { "setcyclic_x_u", "setcyclic_x_v" }
               \cup (IF f["enable_tke"] THEN { "setcyclic_x_tke" } ELSE { })
               \cup (IF f["enable_eke"] THEN { "setcyclic_x_eke" } ELSE { })
               \cup (IF f["enable_idemix"] THEN { "setcyclic_x_E_iw" } ELSE { })
               \cup (IF f["enable_idemix_M2"] THEN { "setcyclic_x_E_M2" } ELSE { })
               \cup (IF f["enable_idemix_niw"] THEN { "setcyclic_x_E_niw" } ELSE { })
          ELSE { })
    \cup (IF f["enable_hydrostatic"] THEN { "vertical_velocity" } ELSE { })

Called == { log[i] : i \in 1 .. Len(log) }

\* C14: the calls made in a step are in canonical order with none repeated, every
\* call made has its condition true, and when the step reaches the time shift
\* the calls made are exactly those whose condition holds; the count of calls
\* starts again from nothing at each step, so a call left out is not made later.
C14_StagesInCanonicalOrder ==
    /\ [] (/\ \A i, j \in 1 .. Len(log) : i < j => Rank(log[i]) < Rank(log[j])
           /\ Called \subseteq Due(flags)
           /\ pc = "shift_time" => Called = Due(flags)
           /\ pc = "step" =>
                 \A c \in Due(flags) : Rank(c) < idx => c \in Called)
    /\ [][ (pc = "loop" /\ pc' = "step") => log' = << >> ]_vars
    /\ [][ pc = "shift_time" => (pc' = "loop" /\ log' = log) ]_vars

C14_Witness ==
    /\ pc = "shift_time"
    /\ flags["enable_idemix_M2"] /\ flags["enable_cyclic_x"] /\ flags["enable_tke"]
    /\ ~ flags["enable_idemix"] /\ ~ flags["enable_eke"] /\ ~ flags["enable_hydrostatic"]
    /\ Len(log) = 16

----------------------------------------------------------------------------
(* Properties of single gates.                                             *)

\* C16 as stated: with idemix disabled neither the idemix parameter update nor
\* the spectral update is called, and the spectral update is called only when
\* idemix is enabled and the M2 or the near-inertial flag is set.
C16_SpectralNeedsIdemix ==
    /\ ~ flags["enable_idemix"] =>
          /\ "set_idemix_parameter" \notin Called
          /\ "set_spectral_parameter" \notin Called
    /\ "set_spectral_parameter" \in Called =>
          /\ flags["enable_idemix"]
          /\ flags["enable_idemix_M2"] \/ flags["enable_idemix_niw"]

\* the step has passed the two parameter updates
PastParameterUpdates ==
    \/ pc = "step" /\ idx > Rank("set_spectral_parameter")
    \/ pc = "shift_time"

\* C16 as amended: the idemix parameter update is called if and only if idemix
\* is enabled; the spectral update is called if and only if the M2 or the
\* near-inertial flag is set, whether or not idemix is enabled.
C16_SpectralGatedByM2OrNiw ==
    /\ "set_idemix_parameter" \in Called => flags["enable_idemix"]
    /\ "set_spectral_parameter" \in Called =>
          flags["enable_idemix_M2"] \/ flags["enable_idemix_niw"]
    /\ PastParameterUpdates =>
          /\ flags["enable_idemix"] => "set_idemix_parameter" \in Called
          /\ (flags["enable_idemix_M2"] \/ flags["enable_idemix_niw"]) =>
                "set_spectral_parameter" \in Called

C16_Witness ==
    /\ pc = "step"
    /\ Pipeline[idx] = "set_eke_diffusivities"
    /\ ~ flags["enable_idemix"]
    /\ flags["enable_idemix_niw"] /\ ~ flags["enable_idemix_M2"]
    /\ log = << "set_forcing", "set_spectral_parameter" >>

\* C20 as stated: every call of an energy integration (EKE, idemix M2,
\* near-inertial and base, wave interaction, TKE) is preceded in its step by the
\* computation of the velocity on the w grid.
C20_EnergyAfterWgrid ==
    \A i \in 1 .. Len(log) :
        log[i] \in { "integrate_eke", "integrate_idemix_M2", "integrate_idemix_niw",
                     "integrate_idemix", "wave_interaction", "integrate_tke" } =>
            \E j \in 1 .. (i - 1) : log[j] = "calculate_velocity_on_wgrid"

\* C20 as amended: the EKE, base idemix and TKE integrations are always preceded
\* in their step by the velocity on the w grid; the M2 and near-inertial
\* integrations and the wave interaction are preceded by it exactly when the
\* EKE, TKE or idemix flag is set as well.
C20_WgridBeforeOwnIntegrations ==
    \A i \in 1 .. Len(log) :
        /\ log[i] \in { "integrate_eke", "integrate_idemix", "integrate_tke" } =>
              \E j \in 1 .. (i - 1) : log[j] = "calculate_velocity_on_wgrid"
        /\ log[i] \in { "integrate_idemix_M2", "integrate_idemix_niw",
                        "wave_interaction" } =>
              ( (\E j \in 1 .. (i - 1) : log[j] = "calculate_velocity_on_wgrid")
                <=> (flags["enable_eke"] \/ flags["enable_tke"]
                        \/ flags["enable_idemix"]) )

C20_Witness ==
    /\ pc = "step"
    /\ Pipeline[idx] = "integrate_tke"
    /\ flags["enable_idemix"] /\ flags["enable_idemix_M2"]
    /\ ~ flags["enable_eke"] /\ ~ flags["enable_tke"] /\ ~ flags["enable_idemix_niw"]
    /\ SubSeq(log, Len(log) - 3, Len(log)) =
          << "calculate_velocity_on_wgrid", "integrate_idemix_M2", "integrate_idemix",
             "wave_interaction" >>

----------------------------------------------------------------------------
(* Properties of the restart reads.                                        *)

Opt(cond, call) == IF cond THEN << call >> ELSE << >>

ExpectedReads(f) ==
    << "read_restart" >>
    \o Opt(f["enable_diag_averages"], "diag_averages_read_restart")
    \o Opt(f["enable_diag_energy"], "diag_energy_read_restart")
    \o Opt(f["enable_diag_overturning"], "diag_over_read_restart")
    \o Opt(f["enable_diag_particles"], "diag_particles_read_restart")

IsPrefix(s, t) == Len(s) <= Len(t) /\ SubSeq(t, 1, Len(s)) = s

ReadsDone ==
    \/ pc \in { "enditt", "loop", "step", "shift_time", "except", "finally" }
    \/ pc = "done" /\ failedAt.phase \in { "none", "loop" }

\* C19: no restart read is made before setup() has returned with the variables
\* allocated; the reads made are, in this order, the main read and the
\* averages, energy, overturning and particles reads whose own flag is set,
\* each once; all of them are made before the first call of the first step,
\* and none is made after that.
C19_RestartReadsInOrder ==
    /\ [] (/\ pc \in { "idle", "setup", "check_setup" } => readLog = << >>
           /\ readLog # << >> => (AllocateReturned /\ variables # EmptyTable)
           /\ IsPrefix(readLog, ExpectedReads(flags))
           /\ ReadsDone => readLog = ExpectedReads(flags)
           /\ (log # << >> \/ steps > 0) => ReadsDone)
    /\ [][ readLog' # readLog => (pc = "restart" /\ Len(readLog') = Len(readLog) + 1) ]_vars

C19_Witness ==
    /\ pc = "step"
    /\ idx = 2
    /\ log = << "set_forcing" >>
    /\ flags["enable_diag_energy"] /\ flags["enable_diag_particles"]
    /\ ~ flags["enable_diag_averages"] /\ ~ flags["enable_diag_overturning"]
    /\ readLog = << "read_restart", "diag_energy_read_restart",
                    "diag_particles_read_restart" >>

----------------------------------------------------------------------------
(* Properties of the cyclic boundary exchange.                             *)

ExchangedFields == { e[1] : e \in exchanged }

OwnFlag(fld) ==
    CASE fld = "tke"   -> "enable_tke"
      [] fld = "eke"   -> "enable_eke"
      [] fld = "E_iw"  -> "enable_idemix"
      [] fld = "E_M2"  -> "enable_idemix_M2"
      [] fld = "E_niw" -> "enable_idemix_niw"

EnergyFields == { "tke", "eke", "E_iw", "E_M2", "E_niw" }

\* no time shift has happened since the exchanges of the current step
StepNotShifted ==
    \/ pc \in { "step", "shift_time", "except" }
    \/ pc \in { "finally", "done" } /\ failedAt.phase = "loop"

\* the last step was completed and no other has begun
StepShifted ==
    /\ steps > 0
    /\ \/ pc = "loop"
       \/ pc \in { "finally", "done" } /\ failedAt.phase = "none"

\* C17: with the cyclic flag off no array is exchanged; with it on, when the step
\* reaches the time shift the arrays exchanged are u, v and the energy arrays
\* whose own flag is set, no others; every exchange is given the slot labelled
\* taup1 when it is called, which is the slot labelled tau after the time shift.
C17_ExchangeOnNextSlot ==
    /\ ~ flags["enable_cyclic_x"] => exchanged = { }
    /\ ExchangedFields \subseteq
          { "u", "v" } \cup { fld \in EnergyFields : flags[OwnFlag(fld)] }
    /\ (pc = "shift_time" /\ flags["enable_cyclic_x"]) =>
          ExchangedFields = { "u", "v" } \cup { fld \in EnergyFields : flags[OwnFlag(fld)] }
    /\ StepNotShifted =>
          \A e \in exchanged : e[2] = taup1 /\ e[2] # tau /\ e[2] # taum1
    /\ StepShifted => \A e \in exchanged : e[2] = tau

C17_Witness ==
    /\ pc = "loop"
    /\ steps = 2
    /\ flags["enable_cyclic_x"]
    /\ labels = << 1, 2, 0 >>
    /\ exchanged = { << "u", 2 >>, << "v", 2 >>, << "tke", 2 >>, << "eke", 2 >>,
                     << "E_iw", 2 >>, << "E_M2", 2 >>, << "E_niw", 2 >> }

----------------------------------------------------------------------------
(* Properties of flush().                                                  *)

\* C18: the only exception flush() passes over is the one raised because the
\* backend has no flush operation; an AttributeError raised inside a backend
\* flush() that exists reaches run() and its except clause.
C18_OnlyMissingFlushSwallowed ==
    /\ swallowed \in { "none", "AttributeError:no_flush" }
    /\ swallowed # "none" => ~ HasFlush(backend_name)

----------------------------------------------------------------------------
(* Properties of the timers.                                               *)

elapsed(n) == timers[n].total

SubTimers == { "momentum", "temperature", "eke", "idemix", "tke" }

\* every timer has been stopped as often as it was started, or once less while
\* its scope is open; a sub-timer runs only inside the scope of "main"; no scope
\* is open once the loop has been left
ScopesPaired ==
    /\ \A n \in TimerNames :
          timers[n].starts - timers[n].stops = IF timers[n].running THEN 1 ELSE 0
    /\ \A n \in SubTimers : timers[n].running => timers["main"].running
    /\ pc \in { "except", "finally", "done" } =>
          \A n \in TimerNames : ~ timers[n].running

\* C11 as stated: in every state elapsed("main") >= elapsed("momentum"), and the
\* scopes are paired on every path.
C11_MainAtLeastMomentumAlways ==
    /\ elapsed("main") >= elapsed("momentum")
    /\ ScopesPaired

\* C11 as amended: elapsed("main") >= elapsed("momentum") in every state in which
\* the scope of "main" is not open; no elapsed value ever decreases; a sub-timer
\* runs only while "main" runs; every timer started is stopped once, also when
\* a call fails inside nested scopes, and none runs when run() exits.
C11_TimersNestAndPair ==
    /\ [] (/\ ~ timers["main"].running =>
                 \A n \in SubTimers : elapsed("main") >= elapsed(n)
           /\ ScopesPaired)
    /\ [][ \A n \in TimerNames : timers'[n].total >= timers[n].total ]_vars

C11_Witness ==
    /\ pc = "done"
    /\ failedAt.phase = "loop"
    /\ failedAt.call = "integrate_idemix"
    /\ steps = 1
    /\ timers["idemix"].starts = 2 /\ timers["idemix"].stops = 2
    /\ timers["main"].starts = 2 /\ timers["main"].stops = 2
    /\ elapsed("momentum") = 2
    /\ elapsed("main") > elapsed("idemix")

----------------------------------------------------------------------------
(* Properties of the gates under assignments to the settings.              *)

\* C15: every call of a step is made or left out according to the settings as
\* they were when the step began, also after a stage has assigned to a setting
\* in the middle of the step.
C15_GatesUseStartOfStepFlags ==
    /\ pc \in { "step", "shift_time" } => Called \subseteq Due(stepFlags)
    /\ pc = "shift_time" => Called = Due(stepFlags)

====
